---- MODULE Spec2Model ----
(***************************************************************************)
(* Mjolnir: the web front end (page.tsx, ContractInput, ContractConverter), *)
(* the server functions that run the analyzer and converter binaries        *)
(* (app/actions.ts, lib/analyzer.ts, lib/converter.ts, the analyze POST     *)
(* routes) and the analysis/conversion engine behind those binaries.        *)
(* The engine's Rust sources are not part of the inspected tree; its        *)
(* definitions below follow the design document (sections 3, 4 and 6).      *)
(***************************************************************************)
EXTENDS Integers, Sequences, FiniteSets, TLC

VARIABLES
    contractCode,     \* page.tsx useState(""): the editor text
    isAnalyzing,      \* page.tsx useState(false)
    isConverting,     \* page.tsx useState(false)
    analysisResults,  \* page.tsx useState(null): Null or Some(result)
    toast,            \* the last react-hot-toast notification
    analyzeCall,      \* the analyzeContract server call handleAnalyze awaits
    convertCall,      \* the convertContract server call handleConvert awaits
    analyzerBuilt,    \* target/release/mjolnir_analyzer_cli exists
    converterBuilt,   \* target/release/mjolnir_converter_cli exists
    request,          \* server boundary: the request a client sends
    lastCall,         \* server boundary: the last completed call for it
    eng               \* the engine's protocol handler, rule by rule

vars == <<contractCode, isAnalyzing, isConverting, analysisResults, toast,
          analyzeCall, convertCall, analyzerBuilt, converterBuilt,
          request, lastCall, eng>>

uiVars == <<contractCode, isAnalyzing, isConverting, analysisResults, toast,
            analyzeCall, convertCall>>
envVars == <<analyzerBuilt, converterBuilt>>
serverVars == <<request, lastCall>>

(***************************************************************************)
(* Bounds of the model.                                                    *)
(***************************************************************************)
\* statements after the contract header in the engine's input fixtures
MaxStmts == 2
\* Math.random() is drawn from the grid {0, 1/RandomGrid, ..} inside [0,1)
RandomGrid == 2

(***************************************************************************)
(* Optional values: null / undefined is the empty sequence.                *)
(***************************************************************************)
Null == <<>>
Some(v) == <<v>>

Max(a, b) == IF a >= b THEN a ELSE b

(***************************************************************************)
(* Source text is a sequence of lexical fragments.  WS is white space; the *)
(* header fragments carry the dialect cues; the statement fragments are    *)
(* the declarations found in a contract body.                              *)
(***************************************************************************)
WS == " "
InkAttr == "#[ink::contract]"
PlainAttr == "#[contract]"
ContractKw == "contract"
LBrace == "{"
Prose == "hello"

FieldValue == "field value: bool"
FieldLog == "field log: unkeyed sequence"
FnFlip == "fn flip: mutating, no event"
FnGet == "fn get: view"
FnWithdraw == "fn withdraw: mutating, call before write, no event"
FnAdd == "fn add: mutating, unchecked integer add, emits event"

Stmts == {FieldValue, FieldLog, FnFlip, FnGet, FnWithdraw, FnAdd}

\* a function of the `pure` class, which only the Solidity-like dialect has,
\* and the same function in the `view` class
FnCalc == "fn calc: pure"
FnCalcView == "fn calc: view"

Declarations == Stmts \cup {FnCalc, FnCalcView}

\* String.prototype.includes on one fragment: the needles the front end
\* searches for and the fragments that contain each of them.
FragmentIncludes(frag, needle) ==
    CASE needle = InkAttr -> frag = InkAttr
      [] needle = PlainAttr -> frag = PlainAttr
      [] needle = ContractKw -> frag \in {InkAttr, PlainAttr, ContractKw}
      [] needle = LBrace -> frag = LBrace
      [] OTHER -> frag = needle

Includes(code, needle) ==
    \E i \in DOMAIN code : FragmentIncludes(code[i], needle)

\* String.prototype.trim: leading and trailing white space removed.
RECURSIVE TrimLeft(_)
TrimLeft(code) ==
    IF code # <<>> /\ Head(code) = WS THEN TrimLeft(Tail(code)) ELSE code

RECURSIVE TrimRight(_)
TrimRight(code) ==
    IF code # <<>> /\ code[Len(code)] = WS
    THEN TrimRight(SubSeq(code, 1, Len(code) - 1))
    ELSE code

Trim(code) == TrimRight(TrimLeft(code))

InkHeader == <<InkAttr, LBrace>>
SolidityHeader == <<ContractKw, LBrace>>

\* SAMPLE_CONTRACTS: the flipper in both dialects.
SAMPLE_CONTRACTS ==
    [ink |-> InkHeader \o <<FieldValue, FnFlip, FnGet>>,
     solidity |-> SolidityHeader \o <<FieldValue, FnFlip, FnGet>>]

(***************************************************************************)
(* The engine (design sections 3 and 4): front end, rule engine, scorer.   *)
(***************************************************************************)
Rules == <<"reentrancy", "unbounded_storage", "missing_event",
           "unchecked_arithmetic">>
RuleNames == {Rules[i] : i \in DOMAIN Rules}
RuleIndex(r) == CHOOSE i \in DOMAIN Rules : Rules[i] = r

Categories == {"performance", "security", "gas_efficiency", "code_quality"}

RuleSeverity(r) ==
    CASE r = "reentrancy" -> "high"
      [] r = "unbounded_storage" -> "medium"
      [] r = "missing_event" -> "low"
      [] r = "unchecked_arithmetic" -> "high"

RuleCategories(r) ==
    CASE r = "reentrancy" -> {"security", "performance"}
      [] r = "unbounded_storage" -> {"gas_efficiency"}
      [] r = "missing_event" -> {"code_quality"}
      [] r = "unchecked_arithmetic" -> {"security"}

\* the statements of the contract model in which a rule finds its pattern
RuleMatches(r, stmt) ==
    CASE r = "reentrancy" -> stmt = FnWithdraw
      [] r = "unbounded_storage" -> stmt = FieldLog
      [] r = "missing_event" -> stmt \in {FnFlip, FnWithdraw}
      [] r = "unchecked_arithmetic" -> stmt = FnAdd

RuleMessage(r) ==
    CASE r = "reentrancy" -> "external call before state write"
      [] r = "unbounded_storage" -> "unbounded storage growth"
      [] r = "missing_event" -> "no event emitted after state change"
      [] r = "unchecked_arithmetic" -> "unchecked integer arithmetic"

RuleRecommendation(r) ==
    CASE r = "reentrancy" -> "apply checks-effects-interactions"
      [] r = "unbounded_storage" -> "use a keyed mapping"
      [] r = "missing_event" -> "emit an event after the state change"
      [] r = "unchecked_arithmetic" -> "use checked arithmetic"

SeverityRank(s) ==
    CASE s = "high" -> 3
      [] s = "medium" -> 2
      [] s = "low" -> 1

PenaltyHigh == 30
PenaltyMedium == 15
PenaltyLow == 5

Penalty(s) ==
    CASE s = "high" -> PenaltyHigh
      [] s = "medium" -> PenaltyMedium
      [] s = "low" -> PenaltyLow

\* Front end: dialect detection from the structural cues, then parsing.
DetectDialect(code) ==
    LET ink == \E i \in DOMAIN code : code[i] \in {InkAttr, PlainAttr}
        sol == \E i \in DOMAIN code : code[i] = ContractKw
    IN  CASE ink /\ sol -> "AmbiguousDialect"
          [] ink -> "ink"
          [] sol -> "solidity"
          [] OTHER -> "NotAContract"

NoModel == [dialect |-> "none", items |-> {}]

\* The contract model: the dialect tag and the declarations with their lines.
Parse(code) ==
    LET d == DetectDialect(code)
    IN  IF d \in {"ink", "solidity"}
        THEN [ok |-> TRUE, error |-> "none",
              model |-> [dialect |-> d,
                         items |-> {[stmt |-> code[i], line |-> i] :
                                      i \in {j \in DOMAIN code : code[j] \in Declarations}}]]
        ELSE [ok |-> FALSE, error |-> d, model |-> NoModel]

\* AnalyzerConfig.enabled_rules: empty or absent means every built-in rule.
EnabledRules(config) ==
    IF config = Null \/ config[1].enabled_rules = <<>>
    THEN RuleNames
    ELSE {r \in RuleNames :
            \E i \in DOMAIN config[1].enabled_rules :
                config[1].enabled_rules[i] = r}

\* custom_weights rescales a rule's contribution; unknown keys are ignored.
Weight(config, r) ==
    IF config # Null /\ \E p \in config[1].custom_weights : p[1] = r
    THEN (CHOOSE p \in config[1].custom_weights : p[1] = r)[2]
    ELSE 1

\* What a rule reads: the contract model only, never the issues so far.
RuleInputDeduped(model, issues) ==
    {it \in model.items : \A x \in issues : x.line # it.line}
RuleInput(model, issues) == model.items

\* One rule over the model: an issue per matching declaration.
RuleFire(r, items) ==
    {[rule |-> r, severity |-> RuleSeverity(r), message |-> RuleMessage(r),
      line |-> it.line, recommendation |-> RuleRecommendation(r)] :
        it \in {x \in items : RuleMatches(r, x.stmt)}}

RECURSIVE SumPenalties(_, _, _)
SumPenalties(issues, config, c) ==
    IF issues = {} THEN 0
    ELSE LET x == CHOOSE y \in issues : TRUE
         IN  (IF c \in RuleCategories(x.rule)
              THEN Penalty(x.severity) * Weight(config, x.rule)
              ELSE 0)
             + SumPenalties(issues \ {x}, config, c)

FullMetrics == [c \in Categories |-> 100]

\* Scorer: each category is reduced by the penalties, floored at 0.
ApplyPenaltiesFromFull(metrics, issues, config) ==
    [c \in Categories |-> Max(0, 100 - SumPenalties(issues, config, c))]
ApplyPenalties(metrics, issues, config) ==
    [c \in Categories |-> Max(0, metrics[c] - SumPenalties(issues, config, c))]

\* Overall score: the mean of the four categories, rounded to nearest.
RoundMean(metrics) ==
    (metrics["performance"] + metrics["security"]
       + metrics["gas_efficiency"] + metrics["code_quality"] + 2) \div 4

\* Issue order: severity descending, line ascending, registration order.
IssueBefore(x, y) ==
    \/ SeverityRank(x.severity) > SeverityRank(y.severity)
    \/ /\ SeverityRank(x.severity) = SeverityRank(y.severity)
       /\ \/ x.line < y.line
          \/ x.line = y.line /\ RuleIndex(x.rule) <= RuleIndex(y.rule)

RECURSIVE SortIssues(_)
SortIssues(issues) ==
    IF issues = {} THEN <<>>
    ELSE LET m == CHOOSE x \in issues : \A y \in issues : IssueBefore(x, y)
         IN  <<m>> \o SortIssues(issues \ {m})

\* The Issue of the response: the rule name is internal to the engine.
EncodeIssue(x) ==
    [severity |-> x.severity, message |-> x.message, line |-> x.line,
     recommendation |-> x.recommendation]

EncodeResult(metrics, issues) ==
    LET sorted == SortIssues(issues)
    IN  [score |-> RoundMean(metrics),
         metrics |-> metrics,
         issues |-> [i \in DOMAIN sorted |-> EncodeIssue(sorted[i])]]

\* The rule engine run in registration order.
RECURSIVE RunRulesFrom(_, _, _, _)
RunRulesFrom(i, model, config, acc) ==
    IF i > Len(Rules) THEN acc
    ELSE IF Rules[i] \notin EnabledRules(config)
         THEN RunRulesFrom(i + 1, model, config, acc)
         ELSE LET fired == RuleFire(Rules[i], RuleInput(model, acc.issues))
              IN  RunRulesFrom(i + 1, model, config,
                     [issues |-> acc.issues \cup fired,
                      metrics |-> ApplyPenalties(acc.metrics, fired, config)])

Analyze(model, config) ==
    RunRulesFrom(1, model, config, [issues |-> {}, metrics |-> FullMetrics])

NoResult ==
    [score |-> 0, metrics |-> [c \in Categories |-> 0], issues |-> <<>>]

(***************************************************************************)
(* Inputs.                                                                 *)
(***************************************************************************)
SeqsUpTo(S, n) == UNION {[1..k -> S] : k \in 0..n}

\* what the engine is given: both headers over every short body, prose, and
\* a text with the cues of both dialects
EngineCodes ==
    {h \o b : h \in {InkHeader, SolidityHeader}, b \in SeqsUpTo(Stmts, MaxStmts)}
      \cup {<<Prose>>, <<InkAttr, ContractKw, LBrace>>}

ReentrancyOnly == [enabled_rules |-> <<"reentrancy">>, custom_weights |-> {}]

Configs ==
    {Null,
     Some([enabled_rules |-> <<>>, custom_weights |-> {}]),
     Some(ReentrancyOnly),
     Some([enabled_rules |-> <<"missing_event", "reentrancy">>,
           custom_weights |-> {<<"reentrancy", 4>>}]),
     Some([enabled_rules |-> <<>>,
           custom_weights |-> {<<"no_such_rule", 9>>, <<"unchecked_arithmetic", 2>>}])}

(***************************************************************************)
(* The engine's protocol handler, one rule at a time: decode and parse,    *)
(* run each enabled rule once in whatever order, then sort, score, encode. *)
(***************************************************************************)
EngIdle ==
    [pc |-> "idle", code |-> <<>>, config |-> Null, model |-> NoModel,
     pending |-> {}, order |-> <<>>, issues |-> {}, metrics |-> FullMetrics,
     exit |-> 0, result |-> NoResult]

EngineStart(code, config) ==
    /\ eng.pc = "idle"
    /\ LET p == Parse(code)
       IN  eng' = IF p.ok
                  THEN [EngIdle EXCEPT !.pc = "running", !.code = code,
                                       !.config = config, !.model = p.model,
                                       !.pending = EnabledRules(config)]
                  ELSE [EngIdle EXCEPT !.pc = "failed", !.code = code,
                                       !.config = config, !.exit = 1]
    /\ UNCHANGED <<uiVars, envVars, serverVars>>

EngineRunRule(r) ==
    /\ eng.pc = "running"
    /\ r \in eng.pending
    /\ LET fired == RuleFire(r, RuleInput(eng.model, eng.issues))
       IN  eng' = [eng EXCEPT
                     !.pending = @ \ {r},
                     !.order = Append(@, r),
                     !.issues = @ \cup fired,
                     !.metrics = ApplyPenalties(@, fired, eng.config)]
    /\ UNCHANGED <<uiVars, envVars, serverVars>>

EngineFinish ==
    /\ eng.pc = "running"
    /\ eng.pending = {}
    /\ eng' = [eng EXCEPT !.pc = "done",
                          !.result = EncodeResult(eng.metrics, eng.issues)]
    /\ UNCHANGED <<uiVars, envVars, serverVars>>

\* One request per invocation: the process emits its response and ends.
EngineExit ==
    /\ eng.pc \in {"done", "failed"}
    /\ eng' = EngIdle
    /\ UNCHANGED <<uiVars, envVars, serverVars>>

\* The analyzer process as a function of its standard input.
EngineAnalyze(code, config) ==
    LET p == Parse(code)
        a == Analyze(p.model, config)
    IN  IF p.ok
        THEN [exit |-> 0, error |-> "none",
              result |-> EncodeResult(a.metrics, a.issues)]
        ELSE [exit |-> 1, error |-> p.error, result |-> NoResult]

NoRequest ==
    [fn |-> "none", json |-> TRUE, codeKind |-> "string", code |-> <<>>,
     config |-> Null, target |-> "none"]

NoCall ==
    [fn |-> "none", exec |-> "none", invoked |-> FALSE, threw |-> FALSE,
     status |-> 0, error |-> FALSE, result |-> Null, conversion |-> Null]

NoPending == [pc |-> "idle", code |-> <<>>, target |-> "none", ret |-> Null]

(***************************************************************************)
(* The converter behind mjolnir_converter_cli (design section 4.4).        *)
(***************************************************************************)
Targets == {"ink", "solidity"}

IsField(stmt) == stmt \in {FieldValue, FieldLog}

\* the declarations of one kind, in source order
RECURSIVE ItemsInOrder(_)
ItemsInOrder(items) ==
    IF items = {} THEN <<>>
    ELSE LET m == CHOOSE x \in items : \A y \in items : x.line <= y.line
         IN  <<m.stmt>> \o ItemsInOrder(items \ {m})

\* the shared IR of a declaration: kind, name and mutability class
DeclKind(stmt) == IF IsField(stmt) THEN "field" ELSE "function"

DeclName(stmt) ==
    CASE stmt = FieldValue -> "value"
      [] stmt = FieldLog -> "log"
      [] stmt = FnFlip -> "flip"
      [] stmt = FnGet -> "get"
      [] stmt = FnWithdraw -> "withdraw"
      [] stmt = FnAdd -> "add"
      [] stmt \in {FnCalc, FnCalcView} -> "calc"

DeclMutability(stmt) ==
    CASE stmt \in {FnFlip, FnWithdraw, FnAdd} -> "mutating"
      [] stmt \in {FnGet, FnCalcView} -> "view"
      [] stmt = FnCalc -> "pure"
      [] OTHER -> "none"

\* mutability mapping: the target's closest class; the Rust-embedded
\* dialect has no `pure` messages, a pure function becomes a view there
TargetMutability(m, target) ==
    IF m = "pure" /\ target = "ink" THEN "view" ELSE m

\* the declaration as the target dialect spells it
EmitDecl(stmt, target) ==
    LET m == TargetMutability(DeclMutability(stmt), target)
    IN  IF m = DeclMutability(stmt) THEN stmt
        ELSE CHOOSE d \in Declarations :
                /\ DeclKind(d) = DeclKind(stmt)
                /\ DeclName(d) = DeclName(stmt)
                /\ DeclMutability(d) = m

\* storage fields first, then the functions, under the target's header
EmitFunctionsOnly(model, target) ==
    LET decls == ItemsInOrder({x \in model.items : ~IsField(x.stmt)})
    IN  (IF target = "ink" THEN InkHeader ELSE SolidityHeader)
          \o [i \in DOMAIN decls |-> EmitDecl(decls[i], target)]
Emit(model, target) ==
    LET decls == ItemsInOrder({x \in model.items : IsField(x.stmt)})
                   \o ItemsInOrder({x \in model.items : ~IsField(x.stmt)})
    IN  (IF target = "ink" THEN InkHeader ELSE SolidityHeader)
          \o [i \in DOMAIN decls |-> EmitDecl(decls[i], target)]

NoConversion == [convertedCode |-> <<>>, targetType |-> "none"]

\* The converter process: an unknown target is a ConfigError, text that is
\* no contract a ParseError; both end the process with a non-zero status.
EngineConvert(code, target) ==
    LET p == Parse(code)
    IN  IF target \notin Targets
        THEN [exit |-> 1, error |-> "ConfigError", result |-> NoConversion]
        ELSE IF ~p.ok
             THEN [exit |-> 1, error |-> p.error, result |-> NoConversion]
             ELSE [exit |-> 0, error |-> "none",
                   result |-> [convertedCode |-> Emit(p.model, target),
                               targetType |-> target]]

(***************************************************************************)
(* Process invocation and JSON at the boundary.                            *)
(***************************************************************************)
\* what can go wrong with a binary that exists: nothing, the process is
\* killed, or its standard output is not JSON
Faults == {"none", "crash", "garbled"}

NoText == [json |-> FALSE, value |-> Null]

\* execSync(path, {input}): throws when the command cannot be run or ends
\* with a non-zero status, and returns the standard output otherwise.
ExecSync(built, fault, proc) ==
    IF ~built \/ fault = "crash" \/ proc.exit # 0
    THEN [threw |-> TRUE, stdout |-> NoText]
    ELSE IF fault = "garbled"
         THEN [threw |-> FALSE, stdout |-> NoText]
         ELSE [threw |-> FALSE,
               stdout |-> [json |-> TRUE, value |-> Some(proc.result)]]

\* JSON.parse: throws a SyntaxError on text that is not JSON.
JSON_parse(text) ==
    IF text.json THEN [threw |-> FALSE, value |-> text.value]
    ELSE [threw |-> TRUE, value |-> Null]

\* how the run of the binary went
ExecClass(built, fault, proc) ==
    CASE ~built -> "missing"
      [] fault = "crash" -> "crash"
      [] proc.exit # 0 -> "rejected"
      [] fault = "garbled" -> "garbled"
      [] OTHER -> "ok"

(***************************************************************************)
(* app/actions.ts                                                          *)
(***************************************************************************)
analyzeContractUnguarded(code, config, built, fault) ==
    LET proc == EngineAnalyze(code, config)
        ex == ExecSync(built, fault, proc)
        parsed == JSON_parse(ex.stdout)
    IN  [NoCall EXCEPT
           !.fn = "actions.analyzeContract",
           !.exec = ExecClass(built, fault, proc),
           !.invoked = TRUE,
           !.result = IF ex.threw \/ parsed.threw THEN Null ELSE parsed.value]

analyzeContractNoConfig(code, config, built, fault) ==
    analyzeContractUnguarded(code, Null, built, fault)

analyzeContract(code, config, built, fault) ==
    LET proc == EngineAnalyze(code, config)
        ex == ExecSync(built, fault, proc)
        parsed == JSON_parse(ex.stdout)
        call == [NoCall EXCEPT !.fn = "actions.analyzeContract",
                               !.exec = ExecClass(built, fault, proc)]
    IN  IF ~built
        THEN [call EXCEPT !.result = Null]
        ELSE IF ex.threw \/ parsed.threw
             THEN [call EXCEPT !.invoked = TRUE, !.result = Null]
             ELSE [call EXCEPT !.invoked = TRUE, !.result = parsed.value]

(***************************************************************************)
(* lib/converter.ts                                                        *)
(***************************************************************************)
convertContract(code, target, built, fault) ==
    LET proc == EngineConvert(code, target)
        ex == ExecSync(built, fault, proc)
        parsed == JSON_parse(ex.stdout)
        call == [NoCall EXCEPT !.fn = "convertContract",
                               !.exec = ExecClass(built, fault, proc),
                               !.invoked = TRUE]
    IN  IF ex.threw \/ parsed.threw
        THEN [call EXCEPT !.conversion = Null]
        ELSE [call EXCEPT !.conversion = parsed.value]

(***************************************************************************)
(* lib/analyzer.ts: the integration with the placeholder fallback.         *)
(***************************************************************************)
RandomDraws == 0..(RandomGrid - 1)
DrawVectors == [1..5 -> RandomDraws]
NoDraws == [i \in 1..5 |-> 0]

\* Math.floor(70 + Math.random() * 30) with Math.random() = k / RandomGrid
MockValueWide(k) == (70 * RandomGrid + 100 * k) \div RandomGrid
MockValue(k) == (70 * RandomGrid + 30 * k) \div RandomGrid

MockIssuesLowFirst ==
    <<[severity |-> "low",
       message |-> "Missing event emission after state change",
       line |-> 78,
       recommendation |-> "Emit events after significant state changes for better off-chain tracking"],
      [severity |-> "high",
       message |-> "Potential reentrancy vulnerability in withdraw function",
       line |-> 42,
       recommendation |-> "Implement checks-effects-interactions pattern"]>>
MockIssues ==
    <<[severity |-> "high",
       message |-> "Potential reentrancy vulnerability in withdraw function",
       line |-> 42,
       recommendation |-> "Implement checks-effects-interactions pattern"],
      [severity |-> "medium",
       message |-> "Inefficient storage usage",
       line |-> 56,
       recommendation |-> "Consider using packed storage or a more efficient data structure"],
      [severity |-> "low",
       message |-> "Missing event emission after state change",
       line |-> 78,
       recommendation |-> "Emit events after significant state changes for better off-chain tracking"]>>

getMockAnalysisResults(code, rnd) ==
    [score |-> MockValue(rnd[1]),
     metrics |-> [performance |-> MockValue(rnd[2]),
                  security |-> MockValue(rnd[3]),
                  gas_efficiency |-> MockValue(rnd[4]),
                  code_quality |-> MockValue(rnd[5])],
     issues |-> MockIssues]

\* whether lib/analyzer.ts falls back to the placeholder
LibFallsBack(code, config, built, fault) ==
    ExecClass(built, fault, EngineAnalyze(code, config)) # "ok"

lib_analyzeContract(code, config, built, fault, rnd) ==
    LET proc == EngineAnalyze(code, config)
        ex == ExecSync(built, fault, proc)
        parsed == JSON_parse(ex.stdout)
        call == [NoCall EXCEPT !.fn = "lib.analyzeContract",
                               !.exec = ExecClass(built, fault, proc)]
    IN  IF ~built
        THEN [call EXCEPT !.result = Some(getMockAnalysisResults(code, rnd))]
        ELSE IF ex.threw \/ parsed.threw
             THEN [call EXCEPT !.invoked = TRUE,
                               !.result = Some(getMockAnalysisResults(code, rnd))]
             ELSE [call EXCEPT !.invoked = TRUE, !.result = parsed.value]

(***************************************************************************)
(* app/api/analyze/route.ts                                                *)
(***************************************************************************)
\* const { code, config } = await request.json(): throws on a body that is
\* not JSON and on the JSON value null, which cannot be destructured
BodyReadThrows(body) == ~body.json \/ body.codeKind = "null body"

POSTUnvalidated(body, built, fault, rnd) ==
    LET call == [NoCall EXCEPT !.fn = "POST"]
        r == lib_analyzeContract(body.code, body.config, built, fault, rnd)
    IN  IF BodyReadThrows(body)
        THEN [call EXCEPT !.status = 500, !.error = TRUE]
        ELSE [call EXCEPT !.status = 200, !.exec = r.exec,
                          !.invoked = r.invoked, !.result = r.result]
POST(body, built, fault, rnd) ==
    LET call == [NoCall EXCEPT !.fn = "POST"]
        r == lib_analyzeContract(body.code, body.config, built, fault, rnd)
    IN  IF BodyReadThrows(body)
        THEN [call EXCEPT !.status = 500, !.error = TRUE]
        ELSE IF body.codeKind # "string" \/ body.code = <<>>
             THEN [call EXCEPT !.status = 400, !.error = TRUE]
             ELSE IF r.threw
                  THEN [call EXCEPT !.status = 500, !.error = TRUE,
                                    !.exec = r.exec, !.invoked = r.invoked]
                  ELSE [call EXCEPT !.status = 200, !.exec = r.exec,
                                    !.invoked = r.invoked, !.result = r.result]

(***************************************************************************)
(* The earlier analyze route, with its own simulated analysis.             *)
(***************************************************************************)
route_analyzeContract(code, rnd) ==
    [score |-> MockValue(rnd[1]),
     metrics |-> [performance |-> MockValue(rnd[2]),
                  security |-> MockValue(rnd[3]),
                  gas_efficiency |-> MockValue(rnd[4]),
                  code_quality |-> MockValue(rnd[5])],
     issues |-> MockIssues]

\* the 1500 ms timer before the analysis always fires
POST_simulated(body, rnd) ==
    LET call == [NoCall EXCEPT !.fn = "POST.simulated"]
    IN  IF BodyReadThrows(body)
        THEN [call EXCEPT !.status = 500, !.error = TRUE]
        ELSE IF body.codeKind # "string" \/ body.code = <<>>
             THEN [call EXCEPT !.status = 400, !.error = TRUE]
             ELSE [call EXCEPT !.status = 200, !.exec = "simulated",
                               !.invoked = TRUE,
                               !.result = Some(route_analyzeContract(body.code, rnd))]

(***************************************************************************)
(* The server boundary: a client sends a request, possibly several times,  *)
(* and each time the server function runs to completion.                   *)
(***************************************************************************)
ServerCodes ==
    {<<WS>>, <<Prose>>, SAMPLE_CONTRACTS.ink,
     SolidityHeader \o <<FnWithdraw, FieldLog>>,
     SolidityHeader \o <<FnFlip, FnWithdraw>>}

\* the codes sent to the integration with the fallback
FallbackCodes == {<<Prose>>, SolidityHeader \o <<FnFlip, FnWithdraw>>}

ServerConfigs == {Null, Some(ReentrancyOnly)}

ConvertTargets == Targets \cup {"cobol"}

Requests ==
    {[NoRequest EXCEPT !.fn = "actions.analyzeContract", !.code = c, !.config = g] :
        c \in ServerCodes, g \in Configs}
      \cup {[NoRequest EXCEPT !.fn = "lib.analyzeContract", !.code = c] :
              c \in FallbackCodes}
      \cup {[NoRequest EXCEPT !.fn = "POST", !.code = c, !.config = g] :
              c \in FallbackCodes, g \in ServerConfigs}
      \cup {[NoRequest EXCEPT !.fn = "convertContract", !.code = c, !.target = t] :
              c \in ServerCodes, t \in ConvertTargets}
      \cup {[NoRequest EXCEPT !.fn = "POST", !.json = FALSE],
            [NoRequest EXCEPT !.fn = "POST", !.codeKind = "absent"],
            [NoRequest EXCEPT !.fn = "POST", !.codeKind = "number"],
            [NoRequest EXCEPT !.fn = "POST", !.code = <<>>],
            [NoRequest EXCEPT !.fn = "POST", !.codeKind = "null body"]}
      \cup {[NoRequest EXCEPT !.fn = "POST.simulated", !.code = <<Prose>>],
            [NoRequest EXCEPT !.fn = "POST.simulated", !.code = <<WS>>],
            [NoRequest EXCEPT !.fn = "POST.simulated", !.json = FALSE],
            [NoRequest EXCEPT !.fn = "POST.simulated", !.codeKind = "absent"],
            [NoRequest EXCEPT !.fn = "POST.simulated", !.codeKind = "number"],
            [NoRequest EXCEPT !.fn = "POST.simulated", !.code = <<>>],
            [NoRequest EXCEPT !.fn = "POST.simulated", !.codeKind = "null body"]}

ClientSend(req) ==
    /\ request' = req
    /\ lastCall' = NoCall
    /\ UNCHANGED <<uiVars, envVars, eng>>

\* the faults a run of the binary at hand can meet
FaultsOf(built) == IF built THEN Faults ELSE {"none"}

ServeAnalyzeContract ==
    /\ request.fn = "actions.analyzeContract"
    /\ lastCall = NoCall
    /\ \E fault \in FaultsOf(analyzerBuilt) :
         lastCall' = analyzeContract(request.code, request.config,
                                     analyzerBuilt, fault)
    /\ UNCHANGED <<uiVars, envVars, request, eng>>

\* The caller may analyze the same (code, config) again and again.
ServeLibAnalyzeContract ==
    /\ request.fn = "lib.analyzeContract"
    /\ \E fault \in FaultsOf(analyzerBuilt) :
         \E rnd \in IF LibFallsBack(request.code, request.config,
                                    analyzerBuilt, fault)
                    THEN DrawVectors ELSE {NoDraws} :
            lastCall' = lib_analyzeContract(request.code, request.config,
                                            analyzerBuilt, fault, rnd)
    /\ UNCHANGED <<uiVars, envVars, request, eng>>

ServeConvertContract ==
    /\ request.fn = "convertContract"
    /\ lastCall = NoCall
    /\ \E fault \in FaultsOf(converterBuilt) :
         lastCall' = convertContract(request.code, request.target,
                                     converterBuilt, fault)
    /\ UNCHANGED <<uiVars, envVars, request, eng>>

\* whether the route reaches the integration at all
BodyAccepted(body) ==
    ~BodyReadThrows(body) /\ body.codeKind = "string" /\ body.code # <<>>

ServePOST ==
    /\ request.fn = "POST"
    /\ lastCall = NoCall
    /\ \E fault \in FaultsOf(analyzerBuilt) :
         \E rnd \in IF /\ BodyAccepted(request)
                       /\ LibFallsBack(request.code, request.config,
                                       analyzerBuilt, fault)
                    THEN DrawVectors ELSE {NoDraws} :
            lastCall' = POST(request, analyzerBuilt, fault, rnd)
    /\ UNCHANGED <<uiVars, envVars, request, eng>>

ServePOSTSimulated ==
    /\ request.fn = "POST.simulated"
    /\ lastCall = NoCall
    /\ \E rnd \in IF BodyAccepted(request) THEN DrawVectors ELSE {NoDraws} :
         lastCall' = POST_simulated(request, rnd)
    /\ UNCHANGED <<uiVars, envVars, request, eng>>

\* scripts/build-analyzer.js, scripts/build-converter.js: cargo build
\* --release leaves the binary in target/release when it succeeds.
BuildAnalyzer(ok) ==
    /\ analyzerBuilt' = (analyzerBuilt \/ ok)
    /\ UNCHANGED <<uiVars, converterBuilt, serverVars, eng>>

BuildConverter(ok) ==
    /\ converterBuilt' = (converterBuilt \/ ok)
    /\ UNCHANGED <<uiVars, analyzerBuilt, serverVars, eng>>

(***************************************************************************)
(* app/page.tsx, components/ContractInput.tsx, ContractConverter.tsx       *)
(***************************************************************************)
NoToast == [kind |-> "none", message |-> "", target |-> "none"]
ToastError(m) == [kind |-> "error", message |-> m, target |-> "none"]

\* the texts a user types or pastes into the editor
EditorCodes ==
    {<<>>, <<WS>>, <<ContractKw>>,
     SAMPLE_CONTRACTS.ink, SAMPLE_CONTRACTS.solidity,
     <<InkAttr, ContractKw, LBrace>>,
     SolidityHeader \o <<FnCalc, FieldValue>>}

\* <textarea onChange={(e) => setContractCode(e.target.value)}>
SetContractCode(code) ==
    /\ code # contractCode
    /\ contractCode' = code
    /\ UNCHANGED <<isAnalyzing, isConverting, analysisResults, toast,
                   analyzeCall, convertCall, envVars, serverVars, eng>>

\* disabled={isAnalyzing || !contractCode.trim()}
AnalyzeDisabledOnEmptyOnly == Trim(contractCode) = <<>>
AnalyzeDisabled == isAnalyzing \/ Trim(contractCode) = <<>>

\* disabled={isConverting || !contractCode.trim()}
ConvertDisabled == isConverting \/ Trim(contractCode) = <<>>

isInkContract(trimmedCode) ==
    Includes(trimmedCode, InkAttr) \/ Includes(trimmedCode, PlainAttr)

isSolidityContractNoBrace(trimmedCode) == Includes(trimmedCode, ContractKw)
isSolidityContract(trimmedCode) ==
    Includes(trimmedCode, ContractKw) /\ Includes(trimmedCode, LBrace)

\* handleAnalyze up to its await, started by a click on the enabled button
HandleAnalyze ==
    /\ ~AnalyzeDisabled
    /\ LET trimmedCode == Trim(contractCode)
       IN  IF trimmedCode = <<>>
           THEN /\ toast' = ToastError("No contract code provided")
                /\ UNCHANGED <<isAnalyzing, analyzeCall>>
           ELSE IF ~isInkContract(trimmedCode) /\ ~isSolidityContract(trimmedCode)
                THEN /\ toast' = ToastError("Invalid contract: Must be either an Ink! or Solidity contract")
                     /\ UNCHANGED <<isAnalyzing, analyzeCall>>
                ELSE /\ isAnalyzing' = TRUE
                     /\ analyzeCall' = [NoPending EXCEPT !.pc = "called",
                                                         !.code = contractCode]
                     /\ UNCHANGED toast
    /\ UNCHANGED <<contractCode, isConverting, analysisResults, convertCall,
                   envVars, serverVars, eng>>

\* the server action runs analyzeContract(contractCode), config undefined
AnalyzeServer ==
    /\ analyzeCall.pc = "called"
    /\ \E fault \in FaultsOf(analyzerBuilt) :
         analyzeCall' = [analyzeCall EXCEPT
                           !.pc = "returned",
                           !.ret = analyzeContract(analyzeCall.code, Null,
                                                   analyzerBuilt, fault).result]
    /\ UNCHANGED <<contractCode, isAnalyzing, isConverting, analysisResults,
                   toast, convertCall, envVars, serverVars, eng>>

\* the call to the server action is rejected (the request does not get through)
AnalyzeRejected ==
    /\ analyzeCall.pc = "called"
    /\ analyzeCall' = [analyzeCall EXCEPT !.pc = "threw"]
    /\ UNCHANGED <<contractCode, isAnalyzing, isConverting, analysisResults,
                   toast, convertCall, envVars, serverVars, eng>>

\* the flag handleAnalyze leaves behind: finally { setIsAnalyzing(false) }
AnalyzeFlagAfterStuck(pc) == pc = "threw"
AnalyzeFlagAfter(pc) == FALSE

\* handleAnalyze after its await: try / catch / finally
AnalyzeResolve ==
    /\ analyzeCall.pc \in {"returned", "threw"}
    /\ IF analyzeCall.pc = "returned"
       THEN /\ analysisResults' = analyzeCall.ret
            /\ UNCHANGED toast
       ELSE /\ toast' = ToastError("Analysis failed. Please try again.")
            /\ UNCHANGED analysisResults
    /\ isAnalyzing' = AnalyzeFlagAfter(analyzeCall.pc)
    /\ analyzeCall' = NoPending
    /\ UNCHANGED <<contractCode, isConverting, convertCall,
                   envVars, serverVars, eng>>

\* handleConvert(targetType) up to its await
HandleConvert(targetType) ==
    /\ ~ConvertDisabled
    /\ IF Trim(contractCode) = <<>>
       THEN /\ toast' = ToastError("No contract code provided")
            /\ UNCHANGED <<isConverting, convertCall>>
       ELSE /\ isConverting' = TRUE
            /\ convertCall' = [NoPending EXCEPT !.pc = "called",
                                                !.code = contractCode,
                                                !.target = targetType]
            /\ UNCHANGED toast
    /\ UNCHANGED <<contractCode, isAnalyzing, analysisResults, analyzeCall,
                   envVars, serverVars, eng>>

\* the server runs convertContract(contractCode, {target: targetType})
ConvertServer ==
    /\ convertCall.pc = "called"
    /\ \E fault \in FaultsOf(converterBuilt) :
         convertCall' = [convertCall EXCEPT
                           !.pc = "returned",
                           !.ret = convertContract(convertCall.code,
                                                   convertCall.target,
                                                   converterBuilt, fault).conversion]
    /\ UNCHANGED <<contractCode, isAnalyzing, isConverting, analysisResults,
                   toast, analyzeCall, envVars, serverVars, eng>>

ConvertRejected ==
    /\ convertCall.pc = "called"
    /\ convertCall' = [convertCall EXCEPT !.pc = "threw"]
    /\ UNCHANGED <<contractCode, isAnalyzing, isConverting, analysisResults,
                   toast, analyzeCall, envVars, serverVars, eng>>

\* the editor text after convertContract returned `result`
CodeAfterConvertCleared(code, result) ==
    IF result # Null THEN result[1].convertedCode ELSE <<>>
CodeAfterConvert(code, result) ==
    IF result # Null THEN result[1].convertedCode ELSE code

\* handleConvert after its await: try / catch / finally
ConvertResolveClearingResults ==
    /\ convertCall.pc \in {"returned", "threw"}
    /\ contractCode' = IF convertCall.pc = "returned"
                       THEN CodeAfterConvert(contractCode, convertCall.ret)
                       ELSE contractCode
    /\ analysisResults' = Null
    /\ toast' = ToastError("Conversion failed. Please try again.")
    /\ isConverting' = FALSE
    /\ convertCall' = NoPending
    /\ UNCHANGED <<isAnalyzing, analyzeCall, envVars, serverVars, eng>>
ConvertResolve ==
    /\ convertCall.pc \in {"returned", "threw"}
    /\ IF convertCall.pc = "returned"
       THEN /\ contractCode' = CodeAfterConvert(contractCode,
                                                convertCall.ret)
            /\ toast' = IF convertCall.ret # Null
                        THEN [kind |-> "success",
                              message |-> "Successfully converted to",
                              target |-> convertCall.target]
                        ELSE [kind |-> "error",
                              message |-> "Failed to convert to",
                              target |-> convertCall.target]
       ELSE /\ toast' = ToastError("Conversion failed. Please try again.")
            /\ UNCHANGED contractCode
    /\ isConverting' = FALSE
    /\ convertCall' = NoPending
    /\ UNCHANGED <<isAnalyzing, analysisResults, analyzeCall,
                   envVars, serverVars, eng>>

Init ==
    /\ contractCode = <<>>
    /\ isAnalyzing = FALSE
    /\ isConverting = FALSE
    /\ analysisResults = Null
    /\ toast = NoToast
    /\ analyzeCall = NoPending
    /\ convertCall = NoPending
    /\ analyzerBuilt = FALSE
    /\ converterBuilt = FALSE
    /\ request = NoRequest
    /\ lastCall = NoCall
    /\ eng = EngIdle

EngineNext ==
    \/ \E code \in EngineCodes, config \in Configs : EngineStart(code, config)
    \/ \E r \in RuleNames : EngineRunRule(r)
    \/ EngineFinish
    \/ EngineExit

EngineSpec == Init /\ [][EngineNext]_vars

ServerNext ==
    \/ \E req \in Requests : ClientSend(req)
    \/ ServeAnalyzeContract
    \/ ServeLibAnalyzeContract
    \/ ServeConvertContract
    \/ ServePOST
    \/ ServePOSTSimulated
    \/ \E ok \in BOOLEAN : BuildAnalyzer(ok)
    \/ \E ok \in BOOLEAN : BuildConverter(ok)

ServerSpec == Init /\ [][ServerNext]_vars

Next ==
    \/ \E code \in EditorCodes : SetContractCode(code)
    \/ HandleAnalyze
    \/ AnalyzeServer
    \/ AnalyzeRejected
    \/ AnalyzeResolve
    \/ \E targetType \in ConvertTargets : HandleConvert(targetType)
    \/ ConvertServer
    \/ ConvertRejected
    \/ ConvertResolve
    \/ \E ok \in BOOLEAN : BuildAnalyzer(ok)
    \/ \E ok \in BOOLEAN : BuildConverter(ok)

Spec == Init /\ [][Next]_vars

\* the editor texts of the runs checked for progress
ProgressCodes == {SAMPLE_CONTRACTS.ink, <<InkAttr, ContractKw, LBrace>>}

FairNext ==
    \/ \E code \in ProgressCodes : SetContractCode(code)
    \/ HandleAnalyze
    \/ AnalyzeServer
    \/ AnalyzeRejected
    \/ AnalyzeResolve
    \/ \E targetType \in ConvertTargets : HandleConvert(targetType)
    \/ ConvertServer
    \/ ConvertRejected
    \/ ConvertResolve
    \/ \E ok \in BOOLEAN : BuildAnalyzer(ok)
    \/ \E ok \in BOOLEAN : BuildConverter(ok)

\* Every step of a started request is eventually taken: the server call
\* completes (execSync is synchronous and the engine runs to completion)
\* or is rejected, and the awaiting handler then resumes.
Fairness ==
    /\ WF_vars(AnalyzeRejected \/ AnalyzeServer)
    /\ WF_vars(AnalyzeResolve)
    /\ WF_vars(ConvertRejected \/ ConvertServer)
    /\ WF_vars(ConvertResolve)

FairSpec == Init /\ [][FairNext]_vars /\ Fairness

(***************************************************************************)
(* Properties.                                                             *)
(***************************************************************************)
InRange(n) == n \in 0..100

ResultInRange(r) ==
    InRange(r.score) /\ \A c \in Categories : InRange(r.metrics[c])

ExecFailed(call) == call.exec \in {"missing", "crash", "rejected", "garbled"}

\* C1: every AnalysisResult analyzeContract returns, parsed from the
\* analyzer's output or produced by getMockAnalysisResults, has an integer
\* score in [0,100] and four integer metrics in [0,100].
C1_ScoreAndMetricsInRange ==
    (lastCall.fn \in {"actions.analyzeContract", "lib.analyzeContract"}
       /\ lastCall.result # Null)
      => ResultInRange(lastCall.result[1])

\* a placeholder result with the largest draw for the score, and floored
\* metrics in a parsed one, are both reached; the witness is the placeholder
C1_Witness ==
    /\ lastCall.fn = "lib.analyzeContract"
    /\ lastCall.exec = "missing"
    /\ lastCall.result # Null
    /\ lastCall.result[1].score = MockValue(RandomGrid - 1)

\* C2: analyzing the same (code, config) twice, the analyzer binary being
\* in the same condition both times, yields the identical AnalysisResult,
\* the runs that fall back to the placeholder included.
C2_SameRequestSameResult ==
    [][(/\ lastCall.fn = "lib.analyzeContract"
        /\ lastCall'.fn = "lib.analyzeContract"
        /\ request' = request
        /\ lastCall'.exec = lastCall.exec)
         => lastCall'.result = lastCall.result]_vars

\* C3: when the analyzer binary is absent, fails or emits unparseable
\* output, what analyzeContract and the POST route return differs from a
\* successful AnalysisResult: null, an error field or a non-2xx status.
C3_FailureDistinguishable ==
    (lastCall.fn \in {"actions.analyzeContract", "lib.analyzeContract", "POST"}
       /\ ExecFailed(lastCall))
      => \/ lastCall.result = Null
         \/ lastCall.error
         \/ lastCall.status \in 300..599

\* C4: analyzeContract (app/actions.ts) and convertContract never throw: a
\* missing binary, a non-zero exit and an unparseable response all become
\* the return value null, and analyzeContract does not run the binary when
\* it does not exist.
C4_FailuresBecomeNull ==
    lastCall.fn \in {"actions.analyzeContract", "convertContract"}
      => /\ ~lastCall.threw
         /\ ExecFailed(lastCall)
              => (lastCall.result = Null /\ lastCall.conversion = Null)
         /\ (lastCall.fn = "actions.analyzeContract" /\ lastCall.exec = "missing")
              => ~lastCall.invoked

C4_Witness ==
    /\ lastCall.fn = "actions.analyzeContract"
    /\ lastCall.exec = "missing"
    /\ lastCall.result = Null
    /\ ~lastCall.invoked

IssuesSorted(issues) ==
    \A i, j \in DOMAIN issues :
        i < j =>
          \/ SeverityRank(issues[i].severity) > SeverityRank(issues[j].severity)
          \/ /\ issues[i].severity = issues[j].severity
             /\ issues[i].line <= issues[j].line

\* C5: the issues of every AnalysisResult are ordered by severity
\* descending and, within one severity, by line ascending; the placeholder
\* result's issues too.
C5_IssuesSorted ==
    lastCall.result # Null => IssuesSorted(lastCall.result[1].issues)

\* a result in which a high-severity issue precedes a low-severity issue of
\* a smaller line
C5_Witness ==
    /\ lastCall.result # Null
    /\ \E i, j \in DOMAIN lastCall.result[1].issues :
         /\ i < j
         /\ lastCall.result[1].issues[i].severity = "high"
         /\ lastCall.result[1].issues[j].severity = "low"
         /\ lastCall.result[1].issues[j].line < lastCall.result[1].issues[i].line

\* C6: a conversion request whose target is neither "ink" nor "solidity"
\* fails with ConfigError and yields no output: convertContract returns no
\* ConversionResult, and handleConvert leaves contractCode as it is.
C6_UnsupportedTargetNoOutput ==
    [][(convertCall.pc = "returned" /\ convertCall.target \notin Targets)
         => /\ EngineConvert(convertCall.code, convertCall.target).error
                 = "ConfigError"
            /\ convertCall.ret = Null
            /\ convertCall'.pc = "idle" => contractCode' = contractCode]_vars

C6_Witness ==
    /\ toast.kind = "error"
    /\ toast.message = "Failed to convert to"
    /\ toast.target = "cobol"
    /\ ~isConverting
    /\ contractCode # <<>>

\* C7: in every AnalysisResult the score is the rounded mean of the four
\* metrics, and each metric is 100 less the weighted penalties of the
\* issues of its category, floored at 0.
C7_ScoreIsRoundedMean ==
    lastCall.result # Null
      => /\ lastCall.result[1].score = RoundMean(lastCall.result[1].metrics)
         /\ lastCall.result[1].metrics
              = Analyze(Parse(request.code).model, request.config).metrics

\* C8: once handleAnalyze has set isAnalyzing (handleConvert: isConverting)
\* the flag is eventually false again, whether the server call returns a
\* result, returns null or throws.
C8_RequestsEnd ==
    /\ isAnalyzing ~> ~isAnalyzing
    /\ isConverting ~> ~isConverting

\* an analysis whose server call threw has ended
C8_Witness ==
    /\ ~isAnalyzing
    /\ analyzeCall.pc = "idle"
    /\ toast.message = "Analysis failed. Please try again."

NamedRules(config) ==
    {config[1].enabled_rules[i] : i \in DOMAIN config[1].enabled_rules}

IssueMessages(result) == {result.issues[i].message : i \in DOMAIN result.issues}

\* the rules whose pattern occurs in the code
RulesWithPattern(code) ==
    {r \in RuleNames : \E i \in DOMAIN code : RuleMatches(r, code[i])}

\* C9: with enabled_rules naming rules, only the named rules emit issues;
\* on a contract with one reentrancy and one unbounded-storage pattern,
\* enabled_rules = ["reentrancy"] yields exactly the reentrancy issue; an
\* empty or absent list runs every built-in rule.
C9_ConfigGating ==
    (lastCall.fn = "actions.analyzeContract" /\ lastCall.result # Null)
      => LET res == lastCall.result[1]
             restricted == request.config # Null
                             /\ request.config[1].enabled_rules # <<>>
         IN  /\ restricted
                  => IssueMessages(res) =
                       {RuleMessage(r) :
                          r \in NamedRules(request.config)
                                  \cap RulesWithPattern(request.code)}
             /\ (request.config = Some(ReentrancyOnly)
                   /\ request.code = SolidityHeader \o <<FnWithdraw, FieldLog>>)
                  => /\ Len(res.issues) = 1
                     /\ res.issues[1].message = RuleMessage("reentrancy")
             /\ ~restricted
                  => IssueMessages(res) =
                       {RuleMessage(r) : r \in RulesWithPattern(request.code)}

C9_Witness ==
    /\ lastCall.fn = "actions.analyzeContract"
    /\ request.config = Some(ReentrancyOnly)
    /\ request.code = SolidityHeader \o <<FnWithdraw, FieldLog>>
    /\ lastCall.result # Null
    /\ Len(lastCall.result[1].issues) = 1

\* the issues and metrics after the rules of `ran`, whatever their order
IssuesOfRules(model, ran) ==
    UNION {RuleFire(r, model.items) : r \in ran}

\* C10: whatever the order in which the enabled rules run, the issues and
\* the metrics are the same: at every point they are those of the set of
\* rules run so far, and the response is that of the registration order.
C10_RuleOrderIndependent ==
    /\ eng.pc \in {"running", "done"}
         => LET ran == EnabledRules(eng.config) \ eng.pending
            IN  /\ eng.issues = IssuesOfRules(eng.model, ran)
                /\ eng.metrics =
                     ApplyPenalties(FullMetrics, eng.issues, eng.config)
    /\ eng.pc = "done"
         => eng.result = EngineAnalyze(eng.code, eng.config).result

\* a finished run whose rules ran against the registration order and
\* reported the same statement twice
C10_Witness ==
    /\ eng.pc = "done"
    /\ Len(eng.order) >= 2
    /\ \E i, j \in DOMAIN eng.order :
         i < j /\ RuleIndex(eng.order[i]) > RuleIndex(eng.order[j])
    /\ \E x, y \in eng.issues : x # y /\ x.line = y.line

\* a rule firing added by hand: rule r reporting line `line`
SyntheticFiring(r, line) ==
    [rule |-> r, severity |-> RuleSeverity(r), message |-> RuleMessage(r),
     line |-> line, recommendation |-> RuleRecommendation(r)]

SyntheticLines == 1..(MaxStmts + 3)

\* C11: for every issue set the engine reaches and every category, one more
\* rule firing that penalizes the category never increases the category's
\* metric: the metric after the addition is at most the metric before.
C11_SeverityMonotone ==
    eng.pc \in {"running", "done"}
      => \A r \in RuleNames, line \in SyntheticLines :
           \A c \in RuleCategories(r) :
              ApplyPenalties(eng.metrics, {SyntheticFiring(r, line)},
                             eng.config)[c] <= eng.metrics[c]

\* issues were reported, a category already stands at the floor, and another
\* category still drops under one more firing
C11_Witness ==
    /\ eng.pc = "running"
    /\ eng.issues # {}
    /\ eng.metrics["security"] = 0
    /\ eng.metrics["code_quality"] \in 1..99
    /\ ApplyPenalties(eng.metrics, {SyntheticFiring("missing_event", 1)},
                      eng.config)["code_quality"] < eng.metrics["code_quality"]

FieldNames(code) ==
    {DeclName(code[i]) : i \in {j \in DOMAIN code : code[j] \in Declarations
                                                      /\ IsField(code[j])}}

\* the functions of a text, each name with its mutability class
FunctionClasses(code) ==
    {<<DeclName(code[i]), DeclMutability(code[i])>> :
        i \in {j \in DOMAIN code : code[j] \in Declarations /\ ~IsField(code[j])}}

FunctionNames(code) == {f[1] : f \in FunctionClasses(code)}

\* every declaration keeps its mutability class in either dialect
RepresentableInBoth(code) ==
    \A i \in DOMAIN code : \A t \in Targets :
        code[i] \in Declarations
          => TargetMutability(DeclMutability(code[i]), t) = DeclMutability(code[i])

OtherDialect(d) == IF d = "ink" THEN "solidity" ELSE "ink"

\* the contracts a round trip starts from, and what the first conversion
\* leaves in the editor
RoundTripSources ==
    {c \in EditorCodes : Parse(c).ok /\ RepresentableInBoth(c)}

FirstLeg(c) ==
    convertContract(c, OtherDialect(DetectDialect(c)), TRUE, "none").conversion

C13_DetectionExclusive ==
    analyzeCall.pc # "idle"
      => /\ DetectDialect(analyzeCall.code) # "AmbiguousDialect"
         /\ DetectDialect(analyzeCall.code) \in {"ink", "solidity"}

\* the texts for which handleAnalyze is to call the analyzer
AnalyzableText(code) ==
    LET t == Trim(code)
    IN  /\ t # <<>>
        /\ \/ Includes(t, "#[ink::contract]")
           \/ Includes(t, "#[contract]")
           \/ Includes(t, "contract") /\ Includes(t, "{")

\* C14: handleAnalyze calls the analyzer only when the trimmed editor text
\* is non-empty and contains "#[ink::contract]" or "#[contract]", or both
\* "contract" and "{"; on any other text it ends with an error notification
\* and leaves isAnalyzing, analysisResults and contractCode as they were.
C14_AnalyzeGuardAndFrame ==
    [][/\ (analyzeCall.pc = "idle" /\ analyzeCall'.pc = "called")
            => AnalyzableText(contractCode)
       /\ HandleAnalyze
            => IF AnalyzableText(contractCode)
               THEN /\ analyzeCall'.pc = "called"
                    /\ analyzeCall'.code = contractCode
               ELSE /\ toast'.kind = "error"
                    /\ analyzeCall' = analyzeCall
                    /\ isAnalyzing' = isAnalyzing
                    /\ analysisResults' = analysisResults
                    /\ contractCode' = contractCode]_vars

\* "contract" without a brace was turned down after an earlier analysis had
\* left its results
C14_Witness ==
    /\ contractCode = <<ContractKw>>
    /\ toast = ToastError("Invalid contract: Must be either an Ink! or Solidity contract")
    /\ ~isAnalyzing
    /\ analyzeCall.pc = "idle"
    /\ analysisResults # Null

\* C15: handleConvert changes contractCode only when convertContract
\* returned a result, and then to exactly that result's convertedCode; when
\* convertContract returned null or the call threw, contractCode stays; in
\* every case handleConvert leaves analysisResults as it was.
C15_ConvertFrame ==
    [][/\ (\E targetType \in ConvertTargets : HandleConvert(targetType))
            => /\ contractCode' = contractCode
               /\ analysisResults' = analysisResults
       /\ ConvertResolve
            => /\ analysisResults' = analysisResults
               /\ contractCode' =
                    IF convertCall.pc = "returned" /\ convertCall.ret # Null
                    THEN convertCall.ret[1].convertedCode
                    ELSE contractCode]_vars

\* a conversion replaced the analyzed text and the results are still there
C15_Witness ==
    /\ toast.kind = "success"
    /\ toast.target = "solidity"
    /\ convertCall.pc = "idle"
    /\ ~isConverting
    /\ contractCode = FirstLeg(SAMPLE_CONTRACTS.ink)[1].convertedCode
    /\ analysisResults # Null

\* C16: at most one analysis and at most one conversion are in flight: while
\* isAnalyzing is true the Analyze button is disabled, while isConverting is
\* true both Convert buttons are, and a handleAnalyze (handleConvert) starts
\* only when no earlier one is still awaiting its call.
C16_OneInFlight ==
    [][/\ isAnalyzing => AnalyzeDisabled
       /\ isConverting => ConvertDisabled
       /\ analyzeCall.pc # "idle" => isAnalyzing
       /\ convertCall.pc # "idle" => isConverting
       /\ HandleAnalyze => (~isAnalyzing /\ analyzeCall.pc = "idle")
       /\ (\E targetType \in ConvertTargets : HandleConvert(targetType))
            => (~isConverting /\ convertCall.pc = "idle")]_vars

\* an analysis and a conversion await their calls over text that would
\* otherwise leave the buttons enabled
C16_Witness ==
    /\ isAnalyzing
    /\ isConverting
    /\ analyzeCall.pc = "called"
    /\ convertCall.pc = "called"
    /\ Trim(contractCode) # <<>>
    /\ AnalyzeDisabled
    /\ ConvertDisabled

\* C17: whenever analysisResults is non-null it is the result of analyzing
\* the text now in the editor, under every interleaving of editing,
\* handleAnalyze and handleConvert.
C17_ResultsOfCurrentCode ==
    analysisResults # Null
      => analysisResults = analyzeContract(contractCode, Null, TRUE, "none").result

\* C18: the analyze POST route gives each request one response: status 400
\* with an error field, the analyzer not being called, when the body's code
\* is missing, empty or not a string; status 500 with an error field when
\* reading the body throws (the analysis itself has no throwing path);
\* otherwise the analysis results with status 200.
C18_RouteResponses ==
    lastCall.fn \in {"POST", "POST.simulated"}
      => IF ~request.json \/ request.codeKind = "null body"
         THEN /\ lastCall.status = 500
              /\ lastCall.error
              /\ lastCall.result = Null
         ELSE IF request.codeKind # "string" \/ request.code = <<>>
              THEN /\ lastCall.status = 400
                   /\ lastCall.error
                   /\ lastCall.result = Null
                   /\ ~lastCall.invoked
                   /\ lastCall.exec = "none"
              ELSE /\ lastCall.status = 200
                   /\ ~lastCall.error
                   /\ lastCall.result # Null
                   /\ lastCall.exec # "none"

\* a body whose code is a number was answered with 400
C18_Witness ==
    /\ lastCall.fn = "POST"
    /\ request.codeKind = "number"
    /\ lastCall.status = 400
    /\ lastCall.error
    /\ ~lastCall.invoked

====
